---- MODULE Spec2Model ----
(***************************************************************************)
(* Model of the form3 client library: the four operations on organisation  *)
(* accounts (Fetch, List, Delete, Create), the retry loop performRequest   *)
(* that drives them over a backoff ticker, and checkErrorMessage.          *)
(*                                                                         *)
(* Time is counted in units of 250 ms.  One logical call is in flight at a *)
(* time; the server and the transport are the environment and answer each  *)
(* physical attempt with any status and body, or with a transport failure. *)
(***************************************************************************)
EXTENDS Integers, Sequences, FiniteSets, TLC

\* ------------------------------------------------------------------ bounds

\* Longest time one round trip may take, in time units.
MaxRtt == 2

\* ------------------------------------------------------- program constants

\* timeout = 10 * time.Second, the http.Client timeout (40 units of 250 ms).
timeout == 40

\* backoffMaxElapsedTime = 10 * time.Second (40 units of 250 ms).
backoffMaxElapsedTime == 40

\* backoff.NewExponentialBackOff(): InitialInterval 500 ms.
InitialInterval == 2

\* backoff.NewExponentialBackOff(): MaxInterval 60 s.
MaxInterval == 240

\* backoff.NewExponentialBackOff(): Multiplier 1.5, as the fraction 3/2.
MultiplierNum == 3

MultiplierDen == 2

\* backoff.NewExponentialBackOff(): RandomizationFactor 0.5, as 1/2.
RandomizationDen == 2

\* The status from which checkErrorMessage reports an error.
ErrorStatusFloor == 300

\* A mutation of retriableStatusCodes: 504 is missing, 502 is retried.
retriableStatusCodes_Mutant == {429, 500, 502, 503}

\* A mutation of retriableStatusCodes: 200 is retried as well.
retriableStatusCodes_With200 == {200, 429, 500, 503, 504}

\* retriableStatusCodes: the statuses for which the client retries.
retriableStatusCodes == {429, 500, 503, 504}

\* ------------------------------------------------------------------ values

\* The status codes the server answers with.
Statuses == {200, 204, 304, 400, 404, 409, 429, 500, 502, 503, 504}

\* The operations of the client.
Operations == {"Fetch", "List", "Delete", "Create"}

\* Organisation accounts the caller or the server may name.
Accounts == {"acc1", "acc2"}

\* OrganisationAccount{}: the zero record.
ZeroAccount == "zero"

\* The nil error.
NilError == [type |-> "nil", text |-> ""]

\* errors.New(text).
ErrorsNew(text) == [type |-> "errors.errorString", text |-> text]

\* The error http.NewRequest returns for a URL that does not parse.
RequestError == [type |-> "url.Error", text |-> "parse"]

\* The error http.Client.Do returns when the send fails or times out.
TransportError == [type |-> "url.Error", text |-> "send"]

\* The error of the JSON decoder on a body that is not JSON.
SyntaxError == [type |-> "json.SyntaxError", text |-> "invalid character"]

\* The error of the JSON decoder on a field of the wrong JSON type.
UnmarshalTypeError == [type |-> "json.UnmarshalTypeError", text |-> "cannot unmarshal"]

\* io.EOF, the error of the JSON decoder on an empty body.
EOFError == ErrorsNew("EOF")

\* The error_message texts the server sends.
Messages == {"does not exist", "Service Unavailable"}

\* A response body: its form, and for a JSON object its two possible members.
\* A member is absent, present and well typed ("ok"), or present with a value
\* of the wrong JSON type somewhere inside it ("mistyped").
EmptyBody == [form |-> "empty", msg |-> "", msgIs |-> "absent",
              data |-> <<>>, dataIs |-> "absent", shape |-> "none"]

GarbageBody == [EmptyBody EXCEPT !.form = "garbage"]

EmptyObject == [EmptyBody EXCEPT !.form = "object"]

ErrorEnvelope(m) == [EmptyObject EXCEPT !.msg = m, !.msgIs = "ok"]

MistypedErrorEnvelope == [EmptyObject EXCEPT !.msgIs = "mistyped"]

\* {"data": {...}} with the record r; ok = FALSE when one field is mistyped.
RecordEnvelope(r, ok) ==
    [EmptyObject EXCEPT !.data = <<r>>, !.shape = "object",
                        !.dataIs = IF ok THEN "ok" ELSE "mistyped"]

\* {"data": [...]} with the records rs.
ListEnvelope(rs, ok) ==
    [EmptyObject EXCEPT !.data = rs, !.shape = "array",
                        !.dataIs = IF ok THEN "ok" ELSE "mistyped"]

ResponseBodies ==
    {EmptyBody, GarbageBody, EmptyObject, MistypedErrorEnvelope}
    \cup {ErrorEnvelope(m) : m \in Messages}
    \cup {RecordEnvelope("acc1", ok) : ok \in BOOLEAN}
    \cup {ListEnvelope(<<>>, TRUE), ListEnvelope(<<"acc1", "acc2">>, TRUE),
          ListEnvelope(<<"acc1">>, FALSE)}

\* The absent response (a nil *http.Response).
NilResponse == [status |-> 0, body |-> EmptyBody]

\* A response as c.httpClient.Do returns it: the status is known, the body is
\* a stream nobody has read yet.
UnreadResponse(status) == [status |-> status, body |-> EmptyBody]

\* The response once its body stream is read and yields b.
ReadAs(r, b) == [r EXCEPT !.body = b]

\* A Go slice of accounts: nil, or a (possibly empty) list of items.
NilList == [isNil |-> TRUE, items |-> <<>>]

GoList(items) == [isNil |-> FALSE, items |-> items]

\* What an operation hands back besides its error: the record (Fetch, Create)
\* or the list (List); Delete hands back neither.
NoValue == [account |-> ZeroAccount, list |-> NilList]

\* The record a decoder leaves behind when it stops on a mistyped field.
PartialAccount == "partial"

\* ---------------------------------------------------------------- decoders

\* json.NewDecoder(resp.Body).Decode(&data) into struct{ErrorMessage string}.
DecodeErrorMessage(body) ==
    CASE body.form = "empty"   -> [err |-> EOFError, msg |-> ""]
      [] body.form = "garbage" -> [err |-> SyntaxError, msg |-> ""]
      [] OTHER ->
           CASE body.msgIs = "mistyped" -> [err |-> UnmarshalTypeError, msg |-> ""]
             [] body.msgIs = "absent"   -> [err |-> NilError, msg |-> ""]
             [] OTHER                   -> [err |-> NilError, msg |-> body.msg]

\* json.NewDecoder(resp.Body).Decode(&data) into struct{Data OrganisationAccount}.
\* The decoder keeps what it filled in before a mistyped field.
DecodeAccount(body) ==
    CASE body.form = "empty"   -> [err |-> EOFError, data |-> ZeroAccount]
      [] body.form = "garbage" -> [err |-> SyntaxError, data |-> ZeroAccount]
      [] OTHER ->
           CASE body.dataIs = "absent" -> [err |-> NilError, data |-> ZeroAccount]
             [] body.shape = "array"   -> [err |-> UnmarshalTypeError, data |-> ZeroAccount]
             [] body.dataIs = "mistyped" ->
                    [err |-> UnmarshalTypeError, data |-> PartialAccount]
             [] OTHER -> [err |-> NilError, data |-> body.data[1]]

\* json.NewDecoder(resp.Body).Decode(&data) into struct{Data []OrganisationAccount}.
DecodeAccounts(body) ==
    CASE body.form = "empty"   -> [err |-> EOFError, data |-> NilList]
      [] body.form = "garbage" -> [err |-> SyntaxError, data |-> NilList]
      [] OTHER ->
           CASE body.dataIs = "absent" -> [err |-> NilError, data |-> NilList]
             [] body.shape = "object"  -> [err |-> UnmarshalTypeError, data |-> NilList]
             [] body.dataIs = "mistyped" ->
                    [err |-> UnmarshalTypeError, data |-> GoList(body.data)]
             [] OTHER -> [err |-> NilError, data |-> GoList(body.data)]

\* ------------------------------------------------------ checkErrorMessage

\* A mutation of checkErrorMessage: a decoded message is dropped.
checkErrorMessage_Swallow(resp) ==
    IF resp.status >= ErrorStatusFloor
    THEN DecodeErrorMessage(resp.body).err
    ELSE NilError

\* A mutation of checkErrorMessage: the error says the status, not the
\* server's message.
checkErrorMessage_StatusText(resp) ==
    IF resp.status >= ErrorStatusFloor
    THEN LET d == DecodeErrorMessage(resp.body)
         IN  IF d.err # NilError THEN d.err ELSE ErrorsNew("status")
    ELSE NilError

\* A mutation of checkErrorMessage: only statuses from 400 are errors.
checkErrorMessage_From400(resp) ==
    IF resp.status >= 400
    THEN LET d == DecodeErrorMessage(resp.body)
         IN  IF d.err # NilError THEN d.err ELSE ErrorsNew(d.msg)
    ELSE NilError

\* checkErrorMessage(resp): nil below 300; from 300 on the decoding error, or
\* errors.New of the decoded error_message.
checkErrorMessage(resp) ==
    IF resp.status >= ErrorStatusFloor
    THEN LET d == DecodeErrorMessage(resp.body)
         IN  IF d.err # NilError THEN d.err ELSE ErrorsNew(d.msg)
    ELSE NilError

\* ------------------------------------------------------------ request body

\* The io.Reader handed to performRequest: nil, or a *bytes.Buffer with its
\* contents and its read offset.
NilReader == [isNil |-> TRUE, buf |-> <<>>, off |-> 0]

BytesBuffer(bytes) == [isNil |-> FALSE, buf |-> bytes, off |-> 0]

\* json.NewEncoder(bodyBytes).Encode(&body): the envelope of the record and
\* the newline the encoder appends.
Encode(account) == <<account, "\n">>

\* bytes.Buffer.Len(): the unread part of the buffer.
Unread(reader) == SubSeq(reader.buf, reader.off + 1, Len(reader.buf))

\* The body http.NewRequest gives the request for this reader: the unread
\* bytes of the buffer (ContentLength is their number; none means NoBody).
RequestBody(reader) == IF reader.isNil THEN <<>> ELSE Unread(reader)

\* ----------------------------------------------------------------- backoff

Max(a, b) == IF a >= b THEN a ELSE b

\* ExponentialBackOff.incrementCurrentInterval.
IncrementCurrentInterval(cur) ==
    IF cur * MultiplierNum >= MaxInterval * MultiplierDen
    THEN MaxInterval
    ELSE (cur * MultiplierNum) \div MultiplierDen

\* getRandomValueFromInterval: the waits the jitter may draw around cur.
RandomValuesFromInterval(cur) ==
    LET delta == cur \div RandomizationDen
    IN  (cur - delta) .. (cur + delta)

\* A mutation of BackOffStopped: the elapsed time is never checked.
BackOffStopped_Never(elapsed) == FALSE

\* ExponentialBackOff.NextBackOff reports Stop: MaxElapsedTime is set and the
\* elapsed time is over it.
BackOffStopped(elapsed) ==
    backoffMaxElapsedTime # 0 /\ elapsed > backoffMaxElapsedTime

\* ------------------------------------------------------- arguments and URLs

\* The identifier of no account: the path of the collection.
NoAccountID == "none"

\* The decimal digits.
Digits == <<"0", "1", "2", "3", "4", "5", "6", "7", "8", "9">>

\* strconv.Itoa(n), and %d of fmt.Sprintf: the decimal text of n.
RECURSIVE Itoa(_)
Itoa(n) ==
    IF n < 0 THEN <<"-">> \o Itoa(0 - n)
    ELSE IF n < 10 THEN <<Digits[n + 1]>>
    ELSE Itoa(n \div 10) \o <<Digits[(n % 10) + 1]>>

\* PageNumber(pageNumber) and PageSize(pageSize): the two List options.
PageNumber(pageNumber) == [option |-> "PageNumber", value |-> pageNumber]

PageSize(pageSize) == [option |-> "PageSize", value |-> pageSize]

\* listOptions{}: the zero options.
ZeroListOptions == [pageNumber |-> 0, pageSize |-> 0]

\* `for _, lo := range loo { lo(&options) }`.
RECURSIVE ApplyListOptions(_, _)
ApplyListOptions(loo, options) ==
    IF loo = <<>> THEN options
    ELSE LET lo == Head(loo)
         IN  ApplyListOptions(
                 Tail(loo),
                 IF lo.option = "PageNumber"
                 THEN [options EXCEPT !.pageNumber = lo.value]
                 ELSE [options EXCEPT !.pageSize = lo.value])

\* The query List sets on the URL: urlQuery.Set for each option that is not 0.
ListQuery(options) ==
    (IF options.pageNumber # 0
     THEN {<<"page[number]", Itoa(options.pageNumber)>>} ELSE {})
    \cup
    (IF options.pageSize # 0
     THEN {<<"page[size]", Itoa(options.pageSize)>>} ELSE {})

\* The URL of a request, as far as the server reads it: the account the path
\* names and the parameters of the query.
URL(id, query) == [accountID |-> id, query |-> query]

\* A mutation of DeleteURL: the version is left off the URL.
DeleteURL_NoVersion(id, v) == URL(id, {})

\* The URL Delete builds: "%s/v1/organisation/accounts/%s?version=%d".
DeleteURL(id, v) == URL(id, {<<"version", Itoa(v)>>})

\* What a caller hands an operation: the record (Create), the identifier and
\* the version (Fetch, Delete), the options (List).
Arguments(a, id, v, l) ==
    [arg |-> a, accountID |-> id, version |-> v, loo |-> l]

NoArguments == Arguments(ZeroAccount, NoAccountID, 0, <<>>)

\* ------------------------------------------------------------------- state

VARIABLES
    baseURLok,        \* Client.baseURL parses as a URL
    store,            \* the accounts the server holds, in the order it lists them
    peer,             \* the locals of the other caller's call while this one runs
    pc,               \* where the logical call stands
    op,               \* the operation called
    arg,              \* the account given to Create
    accountID,        \* the identifier given to Fetch or Delete
    version,          \* the version given to Delete
    loo,              \* the options given to List
    url,              \* the URL the operation built
    body,             \* the io.Reader performRequest was given
    calls,            \* calls of performRequest made by this logical call
    now,              \* time since the backoff was reset
    currentInterval,  \* ExponentialBackOff.currentInterval
    ticker,           \* the ticker: "sending", "waiting" or "closed"
    timerAt,          \* when the pending time.After of the ticker fires
    tickAt,           \* when the last tick was received
    resp,             \* performRequest's resp (its body with what a read found)
    err,              \* performRequest's err
    result,           \* what the operation returned: [value, err]
    attempts,         \* physical attempts (sends) made in this call
    retried,          \* responses of this call that carried 429, 500, 503, 504
    requestBodies,    \* the body each attempt's request carried
    unclosed,         \* attempts whose response body is still open
    failedAt,         \* the attempt on which construction or send failed, or 0
    exhausted,        \* the loop ended because the ticker channel was closed
    found             \* the server held the account the last attempt named

vars == <<baseURLok, store, peer, pc, op, arg, accountID, version, loo, url,
          body, calls, now, currentInterval, ticker, timerAt, tickAt, resp,
          err, result, attempts, retried, requestBodies, unclosed, failedAt,
          exhausted, found>>

tickerVars == <<now, currentInterval, ticker, timerAt, tickAt>>

\* What the caller passed and what the operation built from it.
callVars == <<op, arg, accountID, version, loo, url, calls>>

\* What a call shares with the other calls on the Client, and the server.
sharedVars == <<baseURLok, store, peer>>

NoResult == [value |-> NoValue, err |-> NilError]

\* The locals of a caller that has called nothing yet.
IdleCall ==
    [pc |-> "idle", op |-> "Fetch", arg |-> ZeroAccount,
     accountID |-> NoAccountID, version |-> 0, loo |-> <<>>,
     url |-> URL(NoAccountID, {}), body |-> NilReader, calls |-> 0,
     now |-> 0, currentInterval |-> InitialInterval, ticker |-> "closed",
     timerAt |-> 0, tickAt |-> 0, resp |-> NilResponse, err |-> NilError,
     result |-> NoResult, attempts |-> 0, retried |-> 0,
     requestBodies |-> <<>>, unclosed |-> {}, failedAt |-> 0,
     exhausted |-> FALSE, found |-> FALSE]

\* NewClient(baseURL): no call made yet, and a server that holds no account.
Init ==
    /\ baseURLok \in BOOLEAN
    /\ store = <<>>
    /\ peer = IdleCall
    /\ pc = "idle"
    /\ op = "Fetch"
    /\ arg = ZeroAccount
    /\ accountID = NoAccountID
    /\ version = 0
    /\ loo = <<>>
    /\ url = URL(NoAccountID, {})
    /\ body = NilReader
    /\ calls = 0
    /\ now = 0
    /\ currentInterval = InitialInterval
    /\ ticker = "closed"
    /\ timerAt = 0
    /\ tickAt = 0
    /\ resp = NilResponse
    /\ err = NilError
    /\ result = NoResult
    /\ attempts = 0
    /\ retried = 0
    /\ requestBodies = <<>>
    /\ unclosed = {}
    /\ failedAt = 0
    /\ exhausted = FALSE
    /\ found = FALSE

\* ------------------------------------------------- what an operation returns

Failure(e) == [value |-> NoValue, err |-> e]

AccountResult(account) ==
    [value |-> [account |-> account, list |-> NilList], err |-> NilError]

ListResult(list) ==
    [value |-> [account |-> ZeroAccount, list |-> list], err |-> NilError]

\* A mutation of FetchReturn: the record the decoder filled in is handed back
\* together with the decoding error.
FetchReturn_KeepDecoded(r, e) ==
    IF e # NilError THEN Failure(e)
    ELSE LET ce == checkErrorMessage(r)
             d  == DecodeAccount(r.body)
         IN  IF ce # NilError THEN Failure(ce)
             ELSE [value |-> [account |-> d.data, list |-> NilList], err |-> d.err]

\* Fetch, from the return of performRequest on.
FetchReturn(r, e) ==
    IF e # NilError THEN Failure(e)
    ELSE LET ce == checkErrorMessage(r)
             d  == DecodeAccount(r.body)
         IN  IF ce # NilError THEN Failure(ce)
             ELSE IF d.err # NilError THEN Failure(d.err)
             ELSE AccountResult(d.data)

\* List, from the return of performRequest on.
ListReturn(r, e) ==
    IF e # NilError THEN Failure(e)
    ELSE LET ce == checkErrorMessage(r)
             d  == DecodeAccounts(r.body)
         IN  IF ce # NilError THEN Failure(ce)
             ELSE IF d.err # NilError THEN Failure(d.err)
             ELSE ListResult(d.data)

\* A mutation of DeleteReturn: the status of the answer is not looked at.
DeleteReturn_IgnoreStatus(r, e) == Failure(e)

\* Delete, from the return of performRequest on.
DeleteReturn(r, e) ==
    IF e # NilError THEN Failure(e) ELSE Failure(checkErrorMessage(r))

\* A mutation of CreateReturn: the answer is not decoded, the zero record is
\* handed back.
CreateReturn_NoDecode(r, e) ==
    IF e # NilError THEN Failure(e)
    ELSE LET ce == checkErrorMessage(r)
         IN  IF ce # NilError THEN Failure(ce) ELSE AccountResult(ZeroAccount)

\* Create, from the return of performRequest on.
CreateReturn(r, e) ==
    IF e # NilError THEN Failure(e)
    ELSE LET ce == checkErrorMessage(r)
             d  == DecodeAccount(r.body)
         IN  IF ce # NilError THEN Failure(ce)
             ELSE IF d.err # NilError THEN Failure(d.err)
             ELSE AccountResult(d.data)

OperationReturn(o, r, e) ==
    CASE o = "Fetch"  -> FetchReturn(r, e)
      [] o = "List"   -> ListReturn(r, e)
      [] o = "Delete" -> DeleteReturn(r, e)
      [] OTHER        -> CreateReturn(r, e)

\* ----------------------------------------------------------------- actions

\* No attempt made yet in this call.
NothingSent ==
    /\ attempts' = 0
    /\ retried' = 0
    /\ requestBodies' = <<>>
    /\ unclosed' = {}

\* An operation is called: its arguments, the URL it builds and the body it
\* hands on, with nothing received and nothing returned yet.
BeginOperation(o, in, u, reader, n) ==
    /\ pc \in {"idle", "done"}
    /\ op' = o
    /\ arg' = in.arg
    /\ accountID' = in.accountID
    /\ version' = in.version
    /\ loo' = in.loo
    /\ url' = u
    /\ body' = reader
    /\ calls' = n
    /\ result' = NoResult
    /\ exhausted' = FALSE
    /\ found' = FALSE
    /\ UNCHANGED sharedVars

\* A mutation of EnterPerformRequest: the ticker may close its channel
\* without having sent a tick.
EnterPerformRequest_NoFirstTick(o, in, u, reader) ==
    /\ BeginOperation(o, in, u, reader, 1)
    /\ NothingSent
    /\ pc' = "range"
    /\ now' = 0
    /\ currentInterval' = InitialInterval
    /\ ticker' = "closed"
    /\ timerAt' = 0
    /\ tickAt' = 0
    /\ resp' = NilResponse
    /\ err' = NilError
    /\ failedAt' = 0

\* A mutation of EnterPerformRequest: the first tick comes after a first wait.
EnterPerformRequest_WaitFirst(o, in, u, reader) ==
    /\ BeginOperation(o, in, u, reader, 1)
    /\ NothingSent
    /\ pc' = "range"
    /\ now' = 0
    /\ currentInterval' = InitialInterval
    /\ ticker' = "waiting"
    /\ timerAt' = InitialInterval
    /\ tickAt' = 0
    /\ resp' = NilResponse
    /\ err' = NilError
    /\ failedAt' = 0

\* The head of performRequest: a fresh ExponentialBackOff, reset, and a ticker
\* whose first tick is ready at once.
EnterPerformRequest(o, in, u, reader) ==
    /\ BeginOperation(o, in, u, reader, 1)
    /\ NothingSent
    /\ pc' = "range"
    /\ now' = 0
    /\ currentInterval' = InitialInterval
    /\ ticker' = "sending"
    /\ timerAt' = 0
    /\ tickAt' = 0
    /\ resp' = NilResponse
    /\ err' = NilError
    /\ failedAt' = 0

\* Fetch(accountID) up to its call of performRequest.
Fetch(id) ==
    EnterPerformRequest("Fetch", Arguments(ZeroAccount, id, 0, <<>>),
                        URL(id, {}), NilReader)

\* Delete(accountID, version) up to its call of performRequest.
Delete(id, v) ==
    EnterPerformRequest("Delete", Arguments(ZeroAccount, id, v, <<>>),
                        DeleteURL(id, v), NilReader)

\* Create(organisationAccount) up to its call of performRequest: the envelope
\* is encoded into a bytes.Buffer once.
Create(a) ==
    EnterPerformRequest("Create", Arguments(a, NoAccountID, 0, <<>>),
                        URL(NoAccountID, {}), BytesBuffer(Encode(a)))

\* List(loo...) up to its call of performRequest, with a base URL that parses.
List(l) ==
    /\ baseURLok
    /\ EnterPerformRequest(
           "List", Arguments(ZeroAccount, NoAccountID, 0, l),
           URL(NoAccountID, ListQuery(ApplyListOptions(l, ZeroListOptions))),
           NilReader)

\* List(loo...) with a base URL that url.Parse rejects: it returns the error
\* without calling performRequest.
ListParseError(l) ==
    /\ ~baseURLok
    /\ pc \in {"idle", "done"}
    /\ pc' = "done"
    /\ op' = "List"
    /\ loo' = l
    /\ url' = URL(NoAccountID, {})
    /\ body' = NilReader
    /\ calls' = 0
    /\ NothingSent
    /\ resp' = NilResponse
    /\ err' = NilError
    /\ result' = Failure(RequestError)
    /\ failedAt' = 0
    /\ exhausted' = FALSE
    /\ found' = FALSE
    /\ arg' = ZeroAccount
    /\ accountID' = NoAccountID
    /\ version' = 0
    /\ UNCHANGED <<sharedVars, tickerVars>>

\* List() of service.go: it builds the request and calls c.httpClient.Do
\* itself, once, and goes on with whatever came back.
ServiceGoList ==
    /\ BeginOperation("List", NoArguments, URL(NoAccountID, {}), NilReader, 0)
    /\ pc' = "returned"
    /\ UNCHANGED tickerVars
    /\ \/ /\ ~baseURLok
          /\ NothingSent
          /\ resp' = NilResponse
          /\ err' = RequestError
          /\ failedAt' = 1
       \/ /\ baseURLok
          /\ attempts' = 1
          /\ requestBodies' = <<RequestBody(NilReader)>>
          /\ retried' = 0
          /\ unclosed' = {}
          /\ resp' = NilResponse
          /\ err' = TransportError
          /\ failedAt' = 1
       \/ /\ baseURLok
          /\ attempts' = 1
          /\ requestBodies' = <<RequestBody(NilReader)>>
          /\ unclosed' = {1}
          /\ \E s \in Statuses :
                 /\ resp' = UnreadResponse(s)
                 /\ retried' = IF s \in {429, 500, 503, 504} THEN 1 ELSE 0
          /\ err' = NilError
          /\ failedAt' = 0

\* A mutation of LeavePerformRequest: the loop is left with the ticker running.
LeavePerformRequest_NoStop ==
    /\ pc' = "returned"
    /\ UNCHANGED <<now, currentInterval, ticker, timerAt, tickAt>>

\* performRequest returns: its backoff and its ticker are gone with it.
LeavePerformRequest ==
    /\ pc' = "returned"
    /\ now' = 0
    /\ currentInterval' = InitialInterval
    /\ ticker' = "closed"
    /\ timerAt' = 0
    /\ tickAt' = 0

\* A mutation of Tick: the tick is handed over without waiting for the timer.
Tick_Early(w) ==
    /\ pc = "range"
    /\ ticker \in {"sending", "waiting"}
    /\ w \in RandomValuesFromInterval(currentInterval)
    /\ now' = now
    /\ tickAt' = now
    /\ IF BackOffStopped(now)
       THEN /\ ticker' = "closed"
            /\ UNCHANGED <<currentInterval, timerAt>>
       ELSE /\ ticker' = "waiting"
            /\ timerAt' = now + w
            /\ currentInterval' = IncrementCurrentInterval(currentInterval)
    /\ pc' = "loop"
    /\ UNCHANGED <<sharedVars, callVars, body, resp, err, result, attempts,
                   retried, requestBodies, unclosed, failedAt, exhausted, found>>

\* `for range ticker.C` receives a tick: the first at once, a later one when
\* the ticker's timer has fired.  Having sent the tick the ticker asks
\* NextBackOff: on Stop it stops and closes the channel, otherwise it starts
\* a timer for w, the wait drawn around currentInterval.
Tick(w) ==
    /\ pc = "range"
    /\ ticker \in {"sending", "waiting"}
    /\ w \in RandomValuesFromInterval(currentInterval)
    /\ LET t == IF ticker = "waiting" THEN Max(now, timerAt) ELSE now
       IN  /\ now' = t
           /\ tickAt' = t
           /\ IF BackOffStopped(t)
              THEN /\ ticker' = "closed"
                   /\ UNCHANGED <<currentInterval, timerAt>>
              ELSE /\ ticker' = "waiting"
                   /\ timerAt' = t + w
                   /\ currentInterval' = IncrementCurrentInterval(currentInterval)
    /\ pc' = "loop"
    /\ UNCHANGED <<sharedVars, callVars, body, resp, err, result, attempts,
                   retried, requestBodies, unclosed, failedAt, exhausted, found>>

\* A tick, with any wait the jitter may draw.
TickReceived == \E w \in RandomValuesFromInterval(currentInterval) : Tick(w)

\* `for range ticker.C` finds the channel closed: the backoff is exhausted
\* and the loop ends with resp and err as the last attempt left them.
ChannelClosed ==
    /\ pc = "range"
    /\ ticker = "closed"
    /\ LeavePerformRequest
    /\ exhausted' = TRUE
    /\ UNCHANGED <<sharedVars, callVars, body, resp, err, result, attempts,
                   retried, requestBodies, unclosed, failedAt, found>>

\* http.NewRequest fails: ticker.Stop() and break.
NewRequestFails ==
    /\ pc = "loop"
    /\ ~baseURLok
    /\ err' = RequestError
    /\ failedAt' = attempts + 1
    /\ LeavePerformRequest
    /\ UNCHANGED <<sharedVars, callVars, body, resp, result, attempts, retried,
                   requestBodies, unclosed, exhausted, found>>

\* One physical attempt is sent: the transport reads n bytes of the request
\* body (all of it once the request is written, none when the connection
\* fails before that).
Send(n) ==
    /\ pc = "loop"
    /\ baseURLok
    /\ attempts' = attempts + 1
    /\ requestBodies' = Append(requestBodies, RequestBody(body))
    /\ body' = [body EXCEPT !.off = @ + n]
    /\ UNCHANGED <<baseURLok, peer, callVars, result, exhausted>>

\* A mutation of DoFails: a failed send is retried like a retriable status.
DoFails_Retried ==
    \E d \in 0 .. MaxRtt, n \in {0, Len(RequestBody(body))} :
        /\ Send(n)
        /\ resp' = NilResponse
        /\ err' = TransportError
        /\ failedAt' = attempts + 1
        /\ pc' = "range"
        /\ now' = now + d
        /\ UNCHANGED <<currentInterval, ticker, timerAt, tickAt, retried,
                       unclosed, store, found>>

\* c.httpClient.Do fails: resp is nil, ticker.Stop() and break.
DoFails ==
    \E n \in {0, Len(RequestBody(body))} :
        /\ Send(n)
        /\ resp' = NilResponse
        /\ err' = TransportError
        /\ failedAt' = attempts + 1
        /\ LeavePerformRequest
        /\ UNCHANGED <<retried, unclosed, store, found>>

\* A mutation of ErrAfterResponse: a status from 300 on that is not retried
\* comes back as an error of performRequest.
ErrAfterResponse_OnStatus(s) ==
    IF s >= ErrorStatusFloor /\ s \notin retriableStatusCodes
    THEN ErrorsNew("status")
    ELSE NilError

\* err after c.httpClient.Do has returned a response: nil, whatever its status.
ErrAfterResponse(s) == NilError

\* c.httpClient.Do returns a response with status s after a round trip of d,
\* the server's accounts being st from then on (f: it held the account the
\* request named): on a status of retriableStatusCodes the loop continues, on
\* any other ticker.Stop() and break.
Respond(d, s, st, f) ==
    /\ d <= timeout
    /\ Send(Len(RequestBody(body)))
    /\ resp' = UnreadResponse(s)
    /\ err' = ErrAfterResponse(s)
    /\ unclosed' = unclosed \cup {attempts + 1}
    /\ retried' = IF s \in {429, 500, 503, 504} THEN retried + 1 ELSE retried
    /\ IF s \in retriableStatusCodes
       THEN /\ pc' = "range"
            /\ now' = now + d
            /\ UNCHANGED <<currentInterval, ticker, timerAt, tickAt>>
       ELSE LeavePerformRequest
    /\ store' = st
    /\ found' = f
    /\ UNCHANGED failedAt

\* A response from a server that may answer anything.
DoResponds ==
    \E d \in 0 .. MaxRtt, s \in Statuses : Respond(d, s, store, found)

\* The operation after performRequest has returned an error: it returns it.
ReturnError ==
    /\ pc = "returned"
    /\ err # NilError
    /\ pc' = "done"
    /\ result' = OperationReturn(op, resp, err)
    /\ UNCHANGED <<sharedVars, callVars, body, tickerVars, resp, err, attempts,
                   retried, requestBodies, unclosed, failedAt, exhausted, found>>

\* The operation after performRequest has returned a response: it defers
\* resp.Body.Close(), checks the status, decodes b, what the body stream
\* yields, and returns; the deferred Close runs.
ReadResponse(b) ==
    /\ pc = "returned"
    /\ err = NilError
    /\ resp' = ReadAs(resp, b)
    /\ result' = OperationReturn(op, resp', err)
    /\ pc' = "done"
    /\ unclosed' = unclosed \ {attempts}
    /\ UNCHANGED <<sharedVars, callVars, body, tickerVars, err, attempts,
                   retried, requestBodies, failedAt, exhausted, found>>

\* The operation's return, with any body the stream may yield.
ReturnResponse == \E b \in ResponseBodies : ReadResponse(b)

\* The account every call of the timing specification names.
TheAccount == "acc1"

\* One caller, the arguments fixed, a server that may answer anything after
\* any round trip, every wait the jitter may draw.
Next ==
    \/ Fetch(TheAccount)
    \/ List(<<>>)
    \/ ListParseError(<<>>)
    \/ ServiceGoList
    \/ Delete(TheAccount, 0)
    \/ \E a \in Accounts : Create(a)
    \/ TickReceived
    \/ ChannelClosed
    \/ NewRequestFails
    \/ DoFails
    \/ DoResponds
    \/ ReturnError
    \/ ReturnResponse

Spec == Init /\ [][Next]_vars

\* The steps of a call in flight: the loop of performRequest and the rest of
\* the operation after it.
CallStep ==
    \/ TickReceived
    \/ ChannelClosed
    \/ NewRequestFails
    \/ DoFails
    \/ DoResponds
    \/ ReturnError
    \/ ReturnResponse

\* ------------------------------------------------------ the accounts server

\* Largest page number a caller passes to List.
MaxPageNumber == 1

\* Largest page size a caller passes to List.
MaxPageSize == 2

\* Largest version a caller passes to Delete.
MaxVersion == 1

\* The version the server gives an account it has just created.
NewRecordVersion == 0

\* The option lists a caller passes to List.
ListOptionLists ==
    {<<>>}
    \cup {<<PageNumber(p)>> : p \in 0 .. MaxPageNumber}
    \cup {<<PageSize(s)>> : s \in 0 .. MaxPageSize}
    \cup {<<PageNumber(p), PageSize(s)>> :
              p \in 0 .. MaxPageNumber, s \in 0 .. MaxPageSize}

\* The elements of a sequence.
Range(seq) == {seq[i] : i \in 1 .. Len(seq)}

\* The sequence without the element x.
Remove(seq, x) == SelectSeq(seq, LAMBDA y : y # x)

Min(a, b) == IF a <= b THEN a ELSE b

\* The number a decimal text stands for, as the server parses a parameter.
RECURSIVE Atoi(_)
Atoi(text) ==
    IF text = <<>> THEN 0
    ELSE LET last == text[Len(text)]
             digit == CHOOSE i \in 0 .. 9 : Digits[i + 1] = last
         IN  10 * Atoi(SubSeq(text, 1, Len(text) - 1)) + digit

\* The value of the parameter name in the query, or default without it.
QueryValue(query, name, default) ==
    IF \E p \in query : p[1] = name
    THEN Atoi((CHOOSE p \in query : p[1] = name)[2])
    ELSE default

\* The request of the attempt about to be sent, as the server reads it.
Request == [op |-> op, url |-> url, body |-> RequestBody(body)]

\* The page of st the query asks for: pages are numbered from 0, and without
\* a parameter the server's default applies (the first page, all records).
ApiPage(st, query) ==
    LET number == QueryValue(query, "page[number]", 0)
        size   == QueryValue(query, "page[size]", Len(st))
    IN  SubSeq(st, number * size + 1, Min(number * size + size, Len(st)))

\* What the accounts API answers to a request when it holds the accounts st:
\* the status, the accounts it holds afterwards, and whether it held the
\* account the request named.
ApiAnswer(st, req) ==
    LET id == req.url.accountID
    IN  CASE req.op = "Fetch" ->
               [status |-> IF id \in Range(st) THEN 200 ELSE 404,
                store |-> st, found |-> id \in Range(st)]
          [] req.op = "List" ->
               [status |-> 200, store |-> st, found |-> FALSE]
          [] req.op = "Delete" ->
               IF id \notin Range(st)
               THEN [status |-> 204, store |-> st, found |-> FALSE]
               ELSE IF QueryValue(req.url.query, "version", NewRecordVersion)
                          # NewRecordVersion
               THEN [status |-> 409, store |-> st, found |-> TRUE]
               ELSE [status |-> 204, store |-> Remove(st, id), found |-> TRUE]
          [] OTHER ->
               IF req.body = <<>>
               THEN [status |-> 400, store |-> st, found |-> FALSE]
               ELSE IF req.body[1] \in Range(st)
               THEN [status |-> 409, store |-> st, found |-> TRUE]
               ELSE [status |-> 201, store |-> Append(st, req.body[1]),
                     found |-> FALSE]

\* The bodies the accounts API may send with status s to operation o on u,
\* holding the accounts st (a the account a Create submitted).
ApiBodies(o, u, st, s, a) ==
    CASE s \in {429, 503} -> {ErrorEnvelope("Service Unavailable")}
      [] s = 404 -> {ErrorEnvelope("does not exist")}
      [] s = 400 -> {ErrorEnvelope("validation failure list")}
      [] s = 409 ->
           IF o = "Delete" THEN {ErrorEnvelope("invalid version")}
           ELSE {ErrorEnvelope("violates a duplicate constraint")}
      [] s = 204 -> {EmptyBody}
      [] s = 201 -> {RecordEnvelope(a, TRUE)}
      [] OTHER ->
           IF o = "Fetch" THEN {RecordEnvelope(u.accountID, TRUE)}
           ELSE IF ApiPage(st, u.query) = <<>>
           THEN {ListEnvelope(<<>>, TRUE), EmptyObject}
           ELSE {ListEnvelope(ApiPage(st, u.query), TRUE)}

\* The accounts API answers the attempt.
ApiResponds ==
    LET answer == ApiAnswer(store, Request)
    IN  Respond(0, answer.status, answer.store, answer.found)

\* The server is overloaded or down and answers the attempt with 429 or 503,
\* the request unread.
ApiUnavailable == \E s \in {429, 503} : Respond(0, s, store, found)

\* The operation's return, with the body the accounts API sent.
ApiReturnResponse ==
    \E b \in ApiBodies(op, url, store, resp.status, arg) : ReadResponse(b)

\* A tick, the jitter drawing the middle of its interval.
TickOnTime == Tick(currentInterval)

\* One caller and the accounts API: every argument, the responses without
\* delay, the waits at the middle of the jitter.
ApiNext ==
    \/ \E id \in Accounts : Fetch(id)
    \/ \E l \in ListOptionLists : List(l)
    \/ \E l \in ListOptionLists : ListParseError(l)
    \/ \E id \in Accounts, v \in 0 .. MaxVersion : Delete(id, v)
    \/ \E a \in Accounts : Create(a)
    \/ TickOnTime
    \/ ChannelClosed
    \/ NewRequestFails
    \/ DoFails
    \/ ApiResponds
    \/ ApiUnavailable
    \/ ReturnError
    \/ ApiReturnResponse

ApiSpec == Init /\ [][ApiNext]_vars

\* ------------------------------------------------------------------ claims

\* The statuses the specification names as retriable.
Transient == {429, 500, 503, 504}

\* The success statuses.
Success == 200 .. 299

\* performRequest has returned to the operation that called it.
Returned == pc \in {"returned", "done"}

\* C1: after an attempt returned a response, another attempt follows only if
\* that response carried 429, 500, 503 or 504; on a response with any other
\* status the loop stops on that attempt, performRequest returns that response
\* and no attempt is added afterwards (a non-retriable first response means
\* exactly one attempt).
C1_RetryOnlyOnRetriable ==
    [][ /\ (attempts' = attempts + 1 /\ attempts >= 1)
            => (err = NilError /\ resp.status \in Transient)
        /\ (attempts' = attempts + 1 /\ err' = NilError
              /\ resp'.status \notin Transient)
            => (pc' = "returned" /\ resp'.status \in Statuses)
        /\ (pc = "returned")
            => (pc' = "done" /\ attempts' = attempts /\ resp'.status = resp.status)
      ]_vars

\* C1 witness: one retriable response was retried, and the 404 that answered
\* the second attempt ended the loop there.
C1_Witness ==
    /\ pc = "returned"
    /\ attempts = 2
    /\ retried = 1
    /\ resp.status = 404

\* C2: when the first k responses carry a retriable status and the next one a
\* success status, performRequest has made exactly k+1 attempts and returns
\* that response with a nil error; List of a body that decodes returns no
\* error.
C2_SuccessAfterRetries ==
    (pc # "idle" /\ err = NilError /\ resp.status \in Success) =>
        /\ Returned
        /\ attempts = retried + 1
        /\ failedAt = 0
        /\ (pc = "done" /\ op = "List" /\ DecodeAccounts(resp.body).err = NilError)
             => (result.err = NilError /\ result.value.list = DecodeAccounts(resp.body).data)

\* C2 witness: List answered three times with 429 and then with 200.
C2_Witness ==
    /\ pc = "done"
    /\ op = "List"
    /\ retried = 3
    /\ attempts = 4
    /\ resp.status = 200
    /\ resp.body = ListEnvelope(<<>>, TRUE)
    /\ result.err = NilError

\* The smallest wait the jitter can draw around cur.
SmallestWait(cur) == cur - cur \div RandomizationDen

\* The most ticks a ticker can deliver from elapsed time t and interval cur
\* on: one per smallest wait while the elapsed time is within the ceiling, and
\* the one tick after which the backoff reports Stop.
RECURSIVE MostTicks(_, _)
MostTicks(t, cur) ==
    IF t > backoffMaxElapsedTime
    THEN 1
    ELSE 1 + MostTicks(t + SmallestWait(cur), IncrementCurrentInterval(cur))

\* C3: every call of performRequest returns, whatever the server answers (a
\* retriable status on every attempt included): the attempts of one call never
\* outnumber the ticks the backoff allows before it reports exhaustion, the
\* loop always has a next step, on the closed ticker channel that step is the
\* exit of the loop, and a tick received past the ceiling is the last one.
C3_PerformRequestReturns ==
    /\ attempts <= MostTicks(0, InitialInterval)
    /\ (pc \in {"range", "loop"}) => ENABLED CallStep
    /\ (pc = "range" /\ ticker = "closed") => ~ENABLED TickReceived
    /\ (pc = "loop" /\ now > backoffMaxElapsedTime) => ticker = "closed"

\* C3 witness: every attempt was answered with 429 and the loop ended on the
\* closed ticker channel.
C3_Witness ==
    /\ pc = "returned"
    /\ exhausted
    /\ attempts >= 2
    /\ retried = attempts
    /\ resp.status = 429

\* C4: when the backoff is exhausted while the server keeps answering with a
\* retriable status, performRequest returns the last response, still carrying
\* that status, with a nil error, and the operation returns a non-nil error
\* and no result.
C4_ExhaustionSurfacesAsError ==
    (exhausted /\ Returned) =>
        /\ err = NilError
        /\ resp.status \in Transient
        /\ retried = attempts
        /\ attempts \in unclosed \/ pc = "done"
        /\ (pc = "done") => (result.err # NilError /\ result.value = NoValue)

\* C4 witness: List was answered with 429 until the backoff was exhausted and
\* returned the error made of the last response's message.
C4_Witness ==
    /\ pc = "done"
    /\ op = "List"
    /\ exhausted
    /\ resp.status = 429
    /\ resp.body = ErrorEnvelope("Service Unavailable")
    /\ result.err = ErrorsNew("Service Unavailable")

\* C5: once request construction or the send has failed on an attempt, the
\* loop is left without a further attempt and the operation returns that very
\* error and no result.
C5_TransportFailureIsTerminal ==
    (failedAt # 0) =>
        /\ Returned
        /\ attempts <= failedAt
        /\ err \in {RequestError, TransportError}
        /\ (pc = "done") => (result.err = err /\ result.value = NoValue)

\* C5 witness: after two retried responses the third send failed and the
\* operation returned the transport's error.
C5_Witness ==
    /\ pc = "done"
    /\ failedAt = 3
    /\ attempts = 3
    /\ retried = 2
    /\ result.err = TransportError

\* C6: within one Create call every attempt's request carries the complete
\* encoded body, the n-th attempt the same as the first.
C6_EveryAttemptSendsTheBody ==
    (op = "Create") =>
        \A i \in 1 .. Len(requestBodies) : requestBodies[i] = Encode(arg)

\* C7: when an operation returns, the body of every response obtained during
\* the call has been closed, the responses that were retried included.
C7_EveryResponseBodyClosed ==
    (pc = "done") => (unclosed = {})

\* C8: for a final response below 300 checkErrorMessage returns nil (Delete
\* returns nil); from 300 on the operation returns a non-nil error and no
\* result: the server's error_message verbatim when the envelope decodes, the
\* decoder's error when it does not.
C8_ErrorStatusNeverSucceeds ==
    (pc = "done" /\ err = NilError /\ attempts >= 1) =>
        /\ (resp.status < 300 /\ op = "Delete") => result.err = NilError
        /\ (resp.status < 300 /\ resp.body.form = "object"
              /\ resp.body.dataIs = "absent")
             => result.err = NilError
        /\ (resp.status >= 300) =>
             /\ result.err # NilError
             /\ result.value = NoValue
             /\ (resp.body.form = "object" /\ resp.body.msgIs = "ok")
                  => result.err = ErrorsNew(resp.body.msg)
             /\ (resp.body.form = "object" /\ resp.body.msgIs = "absent")
                  => result.err = ErrorsNew("")
             /\ (resp.body.form = "garbage") => result.err = SyntaxError
             /\ (resp.body.form = "empty") => result.err = EOFError
             /\ (resp.body.form = "object" /\ resp.body.msgIs = "mistyped")
                  => result.err = UnmarshalTypeError

\* C8 witness: Fetch answered with 404 and a decodable envelope returned the
\* server's message.
C8_Witness ==
    /\ pc = "done"
    /\ op = "Fetch"
    /\ resp.status = 404
    /\ resp.body = ErrorEnvelope("does not exist")
    /\ result.err = ErrorsNew("does not exist")

\* The kind the specification gives the error of a final status.
KindOfStatus(status) ==
    CASE status = 404 -> "not-found"
      [] status = 409 -> "version-conflict"
      [] status = 400 -> "validation"
      [] OTHER        -> "server-error"

\* The kind the specification gives the error of the call's outcome.
SpecifiedKind ==
    CASE failedAt # 0 -> "transport"
      [] exhausted    -> "exhausted-retries"
      [] OTHER        -> KindOfStatus(resp.status)

\* The body is a JSON object whose error_message, if any, is a string.
EnvelopeDecodes(b) == b.form = "object" /\ b.msgIs # "mistyped"

\* C9 as stated: the returned error carries the kind its outcome determines
\* (not-found, version-conflict, validation, server-error, transport,
\* exhausted-retries), so it tells the kind: no final response of another
\* kind, its envelope decoded, yields the same error.
C9_ErrorCarriesKind ==
    (pc = "done" /\ attempts >= 1
       /\ (failedAt # 0 \/ (resp.status >= 300 /\ EnvelopeDecodes(resp.body)))) =>
        \A s \in Statuses, b \in ResponseBodies :
            (s >= 300 /\ EnvelopeDecodes(b) /\ KindOfStatus(s) # SpecifiedKind)
                => checkErrorMessage(ReadAs(UnreadResponse(s), b)) # result.err

\* C9 as amended: the returned error carries no kind.  For every final status
\* from 300 on whose envelope decodes (404, 409, 400, any other, and a
\* retriable status left by exhaustion alike) it is errors.New of the server's
\* message, the same whatever the status; a failed construction or send
\* returns the transport's own error.
C9_ErrorIsMessageOnly ==
    (pc = "done") =>
        /\ (failedAt = 0 /\ attempts >= 1 /\ resp.status >= 300
              /\ EnvelopeDecodes(resp.body))
             => /\ result.err.type = "errors.errorString"
                /\ result.err.text = resp.body.msg
        /\ (failedAt # 0)
             => /\ result.err.type = "url.Error"
                /\ result.err = err

\* C9 witness: retry exhaustion returned the same plain error a domain error
\* with that message would be.
C9_Witness ==
    /\ pc = "done"
    /\ exhausted
    /\ resp.status = 503
    /\ resp.body = ErrorEnvelope("does not exist")
    /\ result.err = ErrorsNew("does not exist")

\* C10: Fetch, Create and List return a result or an error, never both: with
\* a non-nil error the record is the zero OrganisationAccount and the list is
\* nil, and a decoded record or list comes with a nil error.
C10_ResultOrError ==
    (pc = "done" /\ op \in {"Fetch", "Create", "List"}) =>
        /\ (result.err # NilError)
             => (result.value.account = ZeroAccount /\ result.value.list = NilList)
        /\ (result.value.account # ZeroAccount \/ ~result.value.list.isNil)
             => result.err = NilError

\* C10 witness: the decoder had filled in part of the record when it failed,
\* and Fetch returned the zero record with the decoding error.
C10_Witness ==
    /\ pc = "done"
    /\ op = "Fetch"
    /\ resp.status = 200
    /\ resp.body = RecordEnvelope("acc1", FALSE)
    /\ DecodeAccount(resp.body).data = PartialAccount
    /\ result.err = UnmarshalTypeError
    /\ result.value.account = ZeroAccount

\* C11: an operation that sends a physical request sends it from within its
\* one call of performRequest, so a response with a retriable status is never
\* handed to the operation before the backoff is exhausted (List included).
C11_OneExecutorCallPerOperation ==
    /\ calls <= 1
    /\ (attempts >= 1) => (calls = 1)
    /\ (pc = "returned" /\ err = NilError /\ resp.status \in Transient)
         => exhausted

\* C18 as stated: after a response with a retriable status the next attempt
\* starts only when the full wait the backoff yielded has passed since the
\* receipt of that response.
C18_WaitCountedFromResponse ==
    [][ (pc = "range" /\ ticker = "waiting" /\ pc' = "loop")
          => now' >= now + (timerAt - tickAt) ]_vars

\* C18 as amended: the wait the backoff yielded is counted from the tick that
\* started the attempt, not from the receipt of its response: the next attempt
\* starts when that wait is over or the response is in, whichever is later.
\* Time passes in the call only while it waits for a tick or for the network.
C18_WaitCountedFromTick ==
    [][ /\ (pc = "range" /\ ticker = "waiting" /\ pc' = "loop")
            => /\ now' >= tickAt + (timerAt - tickAt)
               /\ now' = Max(now, timerAt)
               /\ attempts' = attempts
        /\ (now' > now)
            => \/ (pc = "range" /\ pc' = "loop")
               \/ (pc = "loop" /\ attempts' = attempts + 1)
      ]_vars

\* C18 witness: the first attempt was answered with a retriable status and the
\* second starts at time 1, the smallest first wait after the first tick,
\* however late within it the response came in.
C18_Witness ==
    /\ pc = "loop"
    /\ attempts = 1
    /\ retried = 1
    /\ now = 1
    /\ tickAt = 1

\* C19: no retry wait is started that carries the elapsed time past
\* backoffMaxElapsedTime: while the loop waits for its next tick after a
\* retriable response, the timer it waits for fires within the ceiling.
C19_NoWaitPastCeiling ==
    (pc = "range" /\ ticker = "waiting" /\ timerAt > now)
        => timerAt <= backoffMaxElapsedTime

\* The errors a decoder of a response body returns.
DecodeErrors == {SyntaxError, UnmarshalTypeError, EOFError}

\* C20: performRequest returns a non-nil error only when request construction
\* or the send failed (the exhausted backoff returns the last response with a
\* nil error); a last response that is not retriable comes back as it is, its
\* body unread, with a nil error; and the error an operation makes of a
\* returned response is the one checkErrorMessage gives for it.
C20_ExecutorReturnsResponses ==
    (Returned /\ calls = 1) =>
        /\ (err # NilError) => (failedAt # 0 /\ resp = NilResponse)
        /\ (failedAt = 0 /\ attempts >= 1 /\ resp.status \notin Transient)
             => (err = NilError /\ ~exhausted /\ resp.status \in Statuses)
        /\ (pc = "returned") => (resp.body = EmptyBody)
        /\ (pc = "done" /\ err = NilError) =>
             \/ result.err = checkErrorMessage(resp)
             \/ (checkErrorMessage(resp) = NilError /\ result.err \in DecodeErrors)

\* C20 witness: Fetch was answered 404 and performRequest returned that
\* response with a nil error; the error is checkErrorMessage's.
C20_Witness ==
    /\ pc = "done"
    /\ op = "Fetch"
    /\ calls = 1
    /\ attempts = 1
    /\ resp.status = 404
    /\ err = NilError
    /\ resp.body = ErrorEnvelope("does not exist")
    /\ result.err = ErrorsNew("does not exist")

\* ------------------------------------------------- two callers, one Client

\* A mutation of CallLocals: the backoff and its ticker belong to the Client
\* and are shared by its calls.
CallLocals_SharedBackOff ==
    {"pc", "op", "arg", "accountID", "version", "loo", "url", "body", "calls",
     "resp", "err", "result", "attempts", "retried", "requestBodies",
     "unclosed", "failedAt", "exhausted", "found"}

\* What belongs to one call: the arguments and locals of the operation and
\* the locals of performRequest, expBackOff and ticker among them.
CallLocals ==
    {"pc", "op", "arg", "accountID", "version", "loo", "url", "body", "calls",
     "now", "currentInterval", "ticker", "timerAt", "tickAt",
     "resp", "err", "result", "attempts", "retried", "requestBodies",
     "unclosed", "failedAt", "exhausted", "found"}

\* The locals of the call that is running.
Current ==
    [pc |-> pc,
     op |-> op,
     arg |-> arg,
     accountID |-> accountID,
     version |-> version,
     loo |-> loo,
     url |-> url,
     body |-> body,
     calls |-> calls,
     now |-> now,
     currentInterval |-> currentInterval,
     ticker |-> ticker,
     timerAt |-> timerAt,
     tickAt |-> tickAt,
     resp |-> resp,
     err |-> err,
     result |-> result,
     attempts |-> attempts,
     retried |-> retried,
     requestBodies |-> requestBodies,
     unclosed |-> unclosed,
     failedAt |-> failedAt,
     exhausted |-> exhausted,
     found |-> found]

\* The other caller's goroutine runs from here on: each caller goes on with
\* what belongs to its own call, its clock (the time since its own backoff
\* was reset) included.
Switch ==
    LET in  == [f \in DOMAIN peer |->
                   IF f \in CallLocals THEN peer[f] ELSE Current[f]]
        out == [f \in DOMAIN peer |->
                   IF f \in CallLocals THEN Current[f] ELSE peer[f]]
    IN  /\ now' = in.now
        /\ pc' = in.pc
        /\ op' = in.op
        /\ arg' = in.arg
        /\ accountID' = in.accountID
        /\ version' = in.version
        /\ loo' = in.loo
        /\ url' = in.url
        /\ body' = in.body
        /\ calls' = in.calls
        /\ currentInterval' = in.currentInterval
        /\ ticker' = in.ticker
        /\ timerAt' = in.timerAt
        /\ tickAt' = in.tickAt
        /\ resp' = in.resp
        /\ err' = in.err
        /\ result' = in.result
        /\ attempts' = in.attempts
        /\ retried' = in.retried
        /\ requestBodies' = in.requestBodies
        /\ unclosed' = in.unclosed
        /\ failedAt' = in.failedAt
        /\ exhausted' = in.exhausted
        /\ found' = in.found
        /\ peer' = out
        /\ UNCHANGED <<baseURLok, store>>

\* A response without delay: a success, an error or a retriable status.
RespondsAtOnce == \E s \in {200, 404, 503} : Respond(0, s, store, found)

\* The operation's return, the body a record or an error message.
ReturnsEnvelope ==
    \E b \in {RecordEnvelope(TheAccount, TRUE), ErrorEnvelope("does not exist")} :
        ReadResponse(b)

\* Two callers of one Client, in any interleaving of their steps, and a
\* server that answers at once; the waits at the middle of the
\* jitter.
SharedNext ==
    \/ Fetch(TheAccount)
    \/ Create(TheAccount)
    \/ TickOnTime
    \/ ChannelClosed
    \/ NewRequestFails
    \/ DoFails
    \/ RespondsAtOnce
    \/ ReturnError
    \/ ReturnsEnvelope
    \/ Switch

SharedSpec == Init /\ [][SharedNext]_vars

\* currentInterval after n calls of NextBackOff that did not stop.
RECURSIVE NthInterval(_)
NthInterval(n) ==
    IF n = 0 THEN InitialInterval
    ELSE IncrementCurrentInterval(NthInterval(n - 1))

\* The ticks the loop of the call has received.
Ticks(c) == c.attempts + (IF c.pc = "loop" THEN 1 ELSE 0)

\* The calls of NextBackOff that did not stop: one for each tick received,
\* but for the last when it closed the ticker.
Increments(c) == IF c.ticker = "closed" THEN Ticks(c) - 1 ELSE Ticks(c)

\* The backoff of the call is the one its own ticks made, and it gives up
\* only when its own elapsed time is over the ceiling.
OwnBackOff(c) ==
    (c.pc \in {"range", "loop"}) =>
        /\ Increments(c) >= 0
        /\ c.currentInterval = NthInterval(Increments(c))
        /\ (c.ticker = "closed") => (c.tickAt > backoffMaxElapsedTime)
        /\ (c.ticker = "sending") => (Ticks(c) = 0)
        /\ c.attempts = c.retried

\* The attempts of the call carried its own body: the first the encoded
\* account, Create's argument, and the others what was left of it.
OwnBody(c) ==
    (c.calls = 1) =>
        \A i \in 1 .. Len(c.requestBodies) :
            c.requestBodies[i]
              = IF c.op = "Create" /\ i = 1 THEN Encode(c.arg) ELSE <<>>

\* The call has made one attempt for each retriable answer it got, and one
\* more when it ended on another answer or on a failure.
OwnAttempts(c) ==
    (c.calls = 1 /\ c.pc \in {"returned", "done"}) =>
        /\ c.attempts >= c.retried
        /\ c.attempts <= c.retried + 1
        /\ c.exhausted => (c.attempts = c.retried /\ c.attempts >= 1)
        /\ (c.failedAt = 0 /\ ~c.exhausted) => (c.attempts = c.retried + 1)

\* The call returned what its operation makes of its own last answer.
OwnResult(c) ==
    (c.calls = 1 /\ c.pc = "done") =>
        c.result = OperationReturn(c.op, c.resp, c.err)

Independent(c) ==
    /\ OwnBackOff(c)
    /\ OwnBody(c)
    /\ OwnAttempts(c)
    /\ OwnResult(c)

\* C17: the calls on one Client are independent under every interleaving:
\* each has the backoff state its own ticks made and gives up only on its
\* own elapsed time, each sends its own body, makes one attempt per
\* retriable answer it got (and one more when it ends otherwise) and returns
\* what its own last answer yields; no step writes the Client's
\* configuration, and no step of one call writes a local of the other.
C17_CallsAreIndependent ==
    /\ [](Independent(Current) /\ Independent(peer))
    /\ [][baseURLok' = baseURLok]_vars
    /\ [][ (peer' # peer) =>
             /\ peer' = Current
             /\ Current' = peer
         ]_vars

\* C17 witness: two calls in flight on the Client, a Fetch on its third tick
\* and a Create that has made one attempt, each with its own interval.
C17_Witness ==
    /\ op = "Fetch"
    /\ pc = "loop"
    /\ attempts = 2
    /\ currentInterval = NthInterval(3)
    /\ peer.op = "Create"
    /\ peer.pc = "range"
    /\ peer.attempts = 1
    /\ peer.currentInterval = NthInterval(1)
    /\ peer.requestBodies = <<Encode(TheAccount)>>

\* The query parameter an option of List stands for.
ParameterOf(option) ==
    IF option = "PageNumber" THEN "page[number]" ELSE "page[size]"

\* The places of the caller's option list that hold the option.
Supplied(l, option) == {i \in 1 .. Len(l) : l[i].option = option}

\* The value the caller supplied for the option (the last one counts).
SuppliedValue(l, option) ==
    l[CHOOSE i \in Supplied(l, option) :
          \A j \in Supplied(l, option) : j <= i].value

\* C12: the URL of List carries page[number] (page[size]) exactly when the
\* caller supplied the page-number (page-size) option, with the supplied
\* integer as its value, whatever that value is, 0 included.
C12_QueryCarriesSuppliedOptions ==
    (op = "List" /\ calls = 1) =>
        \A option \in {"PageNumber", "PageSize"} :
            {p \in url.query : p[1] = ParameterOf(option)}
              = IF Supplied(loo, option) = {}
                THEN {}
                ELSE {<<ParameterOf(option), Itoa(SuppliedValue(loo, option))>>}

\* The accounts API answered the last attempt of the call that has returned.
Answered ==
    /\ pc = "done"
    /\ calls = 1
    /\ failedAt = 0
    /\ ~exhausted
    /\ attempts >= 1

\* The records at positions p*s .. p*s+s-1 (counted from 0) of the sequence.
PageOf(seq, p, s) == SubSeq(seq, p * s + 1, Min(p * s + s, Len(seq)))

\* C13: List without options returns all the server's records in its order;
\* with page number p and page size s it returns the records at positions
\* p*s .. p*s+s-1; a page with no record is an empty list and a nil error.
C13_ListReturnsThePage ==
    (Answered /\ op = "List") =>
        /\ result.err = NilError
        /\ (loo = <<>>) => (result.value.list.items = store)
        /\ (Supplied(loo, "PageNumber") # {} /\ Supplied(loo, "PageSize") # {})
             => result.value.list.items
                  = PageOf(store, SuppliedValue(loo, "PageNumber"),
                           SuppliedValue(loo, "PageSize"))

\* C14: Delete of an account the server holds, with a version that is not
\* the account's, returns the error "invalid version" and the account stays;
\* with the account's version it returns nil and the account is gone, the
\* other accounts left as they were; List afterwards returns what the server
\* holds.
C14_DeleteChecksTheVersion ==
    /\ [](  /\ (Answered /\ op = "Delete" /\ found
                  /\ version # NewRecordVersion)
                 => /\ result.err = ErrorsNew("invalid version")
                    /\ accountID \in Range(store)
            /\ (Answered /\ op = "Delete" /\ found
                  /\ version = NewRecordVersion)
                 => /\ result.err = NilError
                    /\ accountID \notin Range(store)
            /\ (Answered /\ op = "List" /\ loo = <<>>)
                 => result.value.list.items = store )
    /\ [][ (op = "Delete" /\ store' # store)
             => /\ version = NewRecordVersion
                /\ store' = Remove(store, accountID) ]_vars

\* C14 witness: Delete with version 1 of an account the server holds at
\* version 0 returned the conflict and the account is still there.
C14_Witness ==
    /\ Answered
    /\ op = "Delete"
    /\ found
    /\ version = 1
    /\ resp.status = 409
    /\ result.err = ErrorsNew("invalid version")
    /\ accountID \in Range(store)

\* C15 as stated: Delete of an identifier the server does not hold returns
\* an error (the not-found one), never success.
C15_DeleteMissingIsNotFound ==
    (Answered /\ op = "Delete" /\ ~found) => (result.err # NilError)

\* C15 as amended: Delete returns an error exactly when the answer carries a
\* status from 300 on; the accounts API answers the Delete of an identifier
\* it does not hold with 204, so that Delete returns nil and changes nothing.
C15_DeleteMissingFollowsStatus ==
    /\ [](  /\ (pc = "done" /\ op = "Delete" /\ calls = 1 /\ failedAt = 0)
                 => (result.err = NilError <=> resp.status < ErrorStatusFloor)
            /\ (Answered /\ op = "Delete" /\ ~found)
                 => (resp.status = 204 /\ result.err = NilError) )
    /\ [][ (op = "Delete" /\ store' # store) => accountID \in Range(store) ]_vars

\* C15 witness: the server held acc1 only, Delete of acc2 was answered 204
\* and returned nil.
C15_Witness ==
    /\ Answered
    /\ op = "Delete"
    /\ accountID = "acc2"
    /\ ~found
    /\ store = <<"acc1">>
    /\ resp.status = 204
    /\ result.err = NilError

\* C16: a Create that succeeds returns the record submitted and the server
\* holds it from then on, after the records it held; Fetch of an identifier
\* the server holds returns that record and List returns the records held; a
\* Create of a record the server already holds returns the error of the
\* duplicate constraint and adds nothing.
C16_CreateFetchList ==
    /\ [](  /\ (Answered /\ op = "Create" /\ result.err = NilError)
                 => /\ result.value.account = arg
                    /\ arg \in Range(store)
            /\ (Answered /\ op = "Create" /\ found)
                 => /\ result.err = ErrorsNew("violates a duplicate constraint")
                    /\ result.value = NoValue
            /\ (Answered /\ op = "Fetch" /\ accountID \in Range(store))
                 => /\ result.err = NilError
                    /\ result.value.account = accountID
            /\ (Answered /\ op = "List" /\ loo = <<>>)
                 => /\ result.err = NilError
                    /\ result.value.list.items = store )
    /\ [][ (op = "Create" /\ store' # store)
             => /\ arg \notin Range(store)
                /\ store' = Append(store, arg) ]_vars

\* C16 witness: acc2 was created after acc1, and Create returned it.
C16_Witness ==
    /\ Answered
    /\ op = "Create"
    /\ arg = "acc2"
    /\ resp.status = 201
    /\ result.value.account = "acc2"
    /\ store = <<"acc1", "acc2">>

\* The attempts the call has started: those sent, and the one whose request
\* could not be built.
Started == Max(attempts, failedAt)

\* C21: performRequest returns only after it has started an attempt, so it
\* never returns a nil response with a nil error, and the operation that
\* goes on to close the response body has a response.
C21_NeverNilNil ==
    (Returned /\ calls = 1) =>
        /\ Started >= 1
        /\ (err # NilError) \/ (resp # NilResponse)
        /\ (pc = "returned" /\ err = NilError)
             => (attempts >= 1 /\ attempts \in unclosed /\ resp.status \in Statuses)

\* C21 witness: the backoff was exhausted and performRequest returned the
\* last 503 with a nil error.
C21_Witness ==
    /\ pc = "returned"
    /\ calls = 1
    /\ exhausted
    /\ err = NilError
    /\ resp.status = 503
    /\ attempts >= 2

\* C22: however performRequest ends (the request could not be built, the
\* send failed, the status was not retriable, the backoff was exhausted),
\* its ticker is stopped when it has returned: no tick comes any more and
\* the call starts no further attempt.
C22_TickerStoppedOnReturn ==
    /\ []( (Returned /\ calls = 1) =>
              /\ ticker = "closed"
              /\ ~ENABLED TickReceived
              /\ ~ENABLED DoResponds
              /\ ~ENABLED DoFails
              /\ ~ENABLED NewRequestFails )
    /\ [][ (Returned /\ Returned' /\ calls' = 1)
              => (attempts' = attempts /\ failedAt' = failedAt
                  /\ requestBodies' = requestBodies /\ UNCHANGED tickerVars) ]_vars

\* C22 witness: the request could not be built on the first tick, and
\* performRequest has returned with its ticker stopped.
C22_Witness ==
    /\ pc = "returned"
    /\ calls = 1
    /\ failedAt = 1
    /\ attempts = 0
    /\ err = RequestError
    /\ ticker = "closed"

\* C23: the first attempt of a call is started at once, no wait before it;
\* the loop waits only after an attempt that was answered with a retriable
\* status, so a call that ends on its first attempt has waited for nothing.
C23_FirstAttemptWithoutWait ==
    [][ /\ (pc = "range" /\ pc' = "loop" /\ attempts = 0)
            => (ticker = "sending" /\ now = 0 /\ now' = 0)
        /\ (pc = "range" /\ pc' = "loop" /\ now' > now)
            => (attempts >= 1 /\ resp.status \in retriableStatusCodes)
        /\ (pc = "loop" /\ attempts = 0 /\ pc' \in {"range", "returned"})
            => (now = 0 /\ tickAt = 0)
      ]_vars

\* C23 witness: the first attempt was answered 404 and performRequest has
\* returned it, after one attempt and no retry.
C23_Witness ==
    /\ pc = "returned"
    /\ calls = 1
    /\ attempts = 1
    /\ retried = 0
    /\ failedAt = 0
    /\ resp.status = 404
    /\ err = NilError

====
